---- MODULE Spec2Model ----
(***************************************************************************)
(* Model of src/main.py: a batch translation pipeline.  main() mirrors the *)
(* input tree, scans it for translatable files and translates every file   *)
(* on a thread pool; translate_file skips a file whose output exists,      *)
(* otherwise requests a streamed completion, decodes the envelope with     *)
(* save_translated_file and reports progress through the unsynchronised    *)
(* counter log_translate_progress._index.                                  *)
(*                                                                         *)
(* Text is a sequence of tokens.  Every token stands for the literal       *)
(* string of the same spelling, so startswith/endswith/strip/split on the  *)
(* text are computed on the tokens exactly as str computes them on the     *)
(* characters: a line break only comes from NL, a backtick only from FENCE *)
(* and a dash only from DASHES.                                            *)
(***************************************************************************)
EXTENDS Naturals, Integers, Sequences, FiniteSets, TLC

\* ------------------------------------------------------------------ bounds
MaxFiles == 2
MaxThreads == 2
MaxLen == 6
MaxName == 3
MaxScanFiles == 1
MaxCallers == 3

\* ------------------------------------------------------------------ tokens
\* FENCE is the run of three backticks, NL the line break "\n"
FENCE == "<fence>"
NL == "\n"
DASHES == "---"
HEADER == "FILE_PATH: a/b.md"
WORD == "Hola"

Tokens == {FENCE, NL, DASHES, HEADER, WORD}

\* file names: stem, then the rest of the name
Names == { <<"a", ".", "md">>, <<"b", ".", "md">>, <<"c", ".", "rst">>,
           <<"d", ".", "txt">> }

\* args.extensions, the default of the --extensions option
extensions == << <<".", "md">>, <<".", "rst">> >>

\* the content of an input file, and of an output file left by an earlier use
SrcContent(n) == <<"source">> \o n
OldContent == <<"old">>

\* logging levels
INFO == "INFO"
ERROR == "ERROR"

\* ------------------------------------------------------- str operations
RECURSIVE lstrip(_)
lstrip(s) == IF s # <<>> /\ Head(s) = NL THEN lstrip(Tail(s)) ELSE s

RECURSIVE rstrip(_)
rstrip(s) ==
    IF s # <<>> /\ s[Len(s)] = NL THEN rstrip(SubSeq(s, 1, Len(s) - 1)) ELSE s

\* str.strip(): NL is the only whitespace token
strip(s) == rstrip(lstrip(s))

\* s.startswith(p), s.endswith(p) for a sequence p
startswith(s, p) == Len(p) <= Len(s) /\ SubSeq(s, 1, Len(p)) = p
endswith(s, p) == Len(p) <= Len(s) /\ SubSeq(s, Len(s) - Len(p) + 1, Len(s)) = p

\* the positions at which p occurs in s
Occurrences(s, p) ==
    { i \in 1..(Len(s) - Len(p) + 1) : SubSeq(s, i, i + Len(p) - 1) = p }

Min(S) == CHOOSE x \in S : \A y \in S : x <= y
Max(S) == CHOOSE x \in S : \A y \in S : x >= y

\* s.split(p, 1): one part when p does not occur, else the parts around the
\* first occurrence
split1(s, p) ==
    IF Occurrences(s, p) = {} THEN << s >>
    ELSE LET i == Min(Occurrences(s, p))
         IN << SubSeq(s, 1, i - 1), SubSeq(s, i + Len(p), Len(s)) >>

\* s.rsplit(p, 1): the parts around the last occurrence
rsplit1(s, p) ==
    IF Occurrences(s, p) = {} THEN << s >>
    ELSE LET i == Max(Occurrences(s, p))
         IN << SubSeq(s, 1, i - 1), SubSeq(s, i + Len(p), Len(s)) >>

Separator == << NL, DASHES, NL >>

\* ------------------------------------------------- save_translated_file
\* the outcomes of mkdir + write_text: written in full; refused before the
\* file is opened (no file); failed after the file was opened (a truncated
\* file is left behind)
IoOutcomes == {"ok", "nofile", "partial"}

\* clean_response without lines 86-87: a fence is left in place
clean_response_unfenced(response_text) == << strip(response_text) >>

\* lines 85-87: strip, then drop the first and the last line of a fenced text.
\* The result is a one-element sequence holding the cleaned text, or the empty
\* sequence when split('\n', 1)[1] raises IndexError (no line break).
clean_response(response_text) ==
    LET cleaned_text == strip(response_text)
    IN IF startswith(cleaned_text, <<FENCE>>) /\ endswith(cleaned_text, <<FENCE>>)
       THEN IF Len(split1(cleaned_text, <<NL>>)) < 2
            THEN << >>
            ELSE << rsplit1(split1(cleaned_text, <<NL>>)[2], <<NL>>)[1] >>
       ELSE << cleaned_text >>

\* line 90: _header, content = cleaned_text.split('\n---\n', 1); the result
\* is << content >>, or the empty sequence when the unpacking raises
\* ValueError or line 87 raised IndexError.
parse_response(response_text) ==
    LET c == clean_response(response_text)
    IN IF c = << >> THEN << >>
       ELSE IF Len(split1(c[1], Separator)) < 2 THEN << >>
       ELSE << split1(c[1], Separator)[2] >>

\* what write_text leaves at the path
written_file(content, io) ==
    IF io = "ok" THEN << content >>
    ELSE IF io = "partial" THEN << << >> >>
    ELSE << >>

\* save_translated_file with line 97 left out: the fallback only warns
save_translated_file_no_fallback(response_text, io) ==
    IF parse_response(response_text) # << >>
    THEN [ path |-> "parsed",
           file |-> written_file(parse_response(response_text)[1], io),
           raised |-> FALSE, logged_error |-> io # "ok" ]
    ELSE [ path |-> "fallback", file |-> << >>,
           raised |-> FALSE, logged_error |-> FALSE ]

\* save_translated_file with line 97 writing the stripped text
save_translated_file_cleaned(response_text, io) ==
    IF parse_response(response_text) # << >>
    THEN [ path |-> "parsed",
           file |-> written_file(parse_response(response_text)[1], io),
           raised |-> FALSE, logged_error |-> io # "ok" ]
    ELSE [ path |-> "fallback", file |-> written_file(strip(response_text), io),
           raised |-> io # "ok", logged_error |-> FALSE ]

\* lines 81-99.  file: << content >> when a file is left at output_path, else
\* << >>.  An OSError of the first write is swallowed by line 98; one of the
\* fallback write of line 97 is raised inside a handler and leaves the function.
save_translated_file(response_text, io) ==
    LET parsed == parse_response(response_text)
    IN IF parsed # << >>
       THEN [ path |-> "parsed", file |-> written_file(parsed[1], io),
              raised |-> FALSE, logged_error |-> io # "ok" ]
       ELSE [ path |-> "fallback", file |-> written_file(response_text, io),
              raised |-> io # "ok", logged_error |-> FALSE ]

\* ------------------------------------------------------- the two scans
\* line 17: any(file.endswith(ext) for ext in extensions)
is_doc_file(file, exts) == \E k \in 1..Len(exts) : endswith(file, exts[k])

\* lines 12-19
find_doc_files(files, exts) == { f \in files : is_doc_file(f, exts) }

\* pathlib's Path.suffix: the name from its last dot on, unless that dot
\* opens or closes the name
suffix(name) ==
    LET dots == { i \in 1..Len(name) : name[i] = "." }
    IN IF dots = {} THEN << >>
       ELSE IF Max(dots) = 1 \/ Max(dots) = Len(name) THEN << >>
       ELSE SubSeq(name, Max(dots), Len(name))

\* line 111: src_path.suffix not in extensions and not dst_path.exists()
is_copied(name, exts, dst) ==
    /\ \A k \in 1..Len(exts) : suffix(name) # exts[k]
    /\ name \notin DOMAIN dst

\* a directory tree t with a file of content c put at path n
WithFile(t, n, c) == [ m \in DOMAIN t \cup {n} |-> IF m = n THEN c ELSE t[m] ]

\* sync_directories without the "not dst_path.exists()" of line 111: every
\* file it does not take for a translatable one is copied over
sync_directories_overwriting(files, dst, exts) ==
    LET copied == { f \in files : \A k \in 1..Len(exts) : suffix(f) # exts[k] }
    IN [ m \in DOMAIN dst \cup copied |->
           IF m \in copied THEN SrcContent(m) ELSE dst[m] ]

\* lines 101-113, over a flat input directory
sync_directories(files, dst, exts) ==
    [ m \in DOMAIN dst \cup { f \in files : is_copied(f, exts, dst) } |->
        IF m \in DOMAIN dst THEN dst[m] ELSE SrcContent(m) ]

\* -------------------------------------------------------------- state
VARIABLES
    api_key,            \* args.api_key
    input_is_dir,       \* input_dir.is_dir()
    threads,            \* args.threads
    inputFiles,         \* the names of the files under input_dir
    out,                \* the output tree: name -> content, for the files in it
    pc,                 \* where main() is
    run,                \* which invocation of main() this is
    files_to_translate, \* the result of find_doc_files
    total_files,        \* len(files_to_translate)
    st,                 \* per file: where its translate_file task is
    response,           \* per file: full_response_content, the deltas collected
    kind,               \* per file: the progress message translate_file is logging
    loaded,             \* per file: the value of _index read by "+= 1"
    index,              \* log_translate_progress._index
    printed,            \* per file: the progress entries logged for it
    requests,           \* per file: chat.completions.create calls of this run
    existed,            \* name -> content, for the files whose output existed
                        \* when translate_file began
    wrote,              \* per file: the outcome of the write of line 93 / 97
    uncaught,           \* files main() logged an uncaught exception for (line 217)
    prev,               \* per file: how the previous invocation ended for it
    out0,               \* the output tree as it was when main() was invoked
    ctext,              \* codec: the response text under test
    cio,                \* codec: the outcome of its write
    cres,               \* codec: the result of save_translated_file
    sfiles,             \* scans: the names of the files under src_dir
    sexts,              \* scans: args.extensions
    strees,             \* scans: the output tree at first and after each
                        \* call of sync_directories
    sfound              \* scans: the result of find_doc_files

pipelineVars == << api_key, input_is_dir, threads, inputFiles, out, pc, run,
                   files_to_translate, total_files, st, response, kind,
                    loaded,
                   index, printed, requests, existed, wrote, uncaught, prev,
                   out0 >>
codecVars == << ctext, cio, cres >>
scanVars == << sfiles, sexts, strees, sfound >>
vars == << pipelineVars, codecVars, scanVars >>

\* the response streams of the service: each a sequence of chunks, a chunk
\* being its delta text (the empty text for a chunk without content)
Streams == { << << WORD >> >>,
             << << >>, << HEADER, NL, DASHES, NL, WORD >> >>,
             << << FENCE, NL, HEADER >>, << NL, DASHES, NL, WORD, NL, FENCE >> >> }

\* "".join(parts)
RECURSIVE join(_)
join(parts) == IF parts = << >> THEN << >> ELSE Head(parts) \o join(Tail(parts))

Running == { "read", "request", "stream", "save",
             "log_load", "log_store", "log_print", "print_exc" }
Finished == { "returned", "raised", "collected" }

InFlight == { f \in Names : st[f] \in Running }

NoPrev == [ f \in Names |-> "none" ]

\* the per-invocation state of a fresh process
FreshRun ==
    /\ pc = "check_key"
    /\ files_to_translate = {}
    /\ total_files = 0
    /\ st = [ f \in Names |-> "none" ]
    /\ response = [ f \in Names |-> << >> ]
    /\ kind = [ f \in Names |-> "none" ]
    /\ loaded = [ f \in Names |-> 0 ]
    /\ index = 0
    /\ printed = [ f \in Names |-> << >> ]
    /\ requests = [ f \in Names |-> 0 ]
    /\ existed = << >>
    /\ wrote = [ f \in Names |-> "none" ]
    /\ uncaught = {}

CodecIdle == ctext = << >> /\ cio = "none" /\ cres = << >>

ScanIdle == sfiles = {} /\ sexts = << >> /\ strees = << >> /\ sfound = << >>

Init ==
    /\ api_key \in { "", "...", "sk-key" }
    /\ threads \in 1..MaxThreads
    /\ input_is_dir \in BOOLEAN
    /\ inputFiles \in { S \in SUBSET Names : Cardinality(S) <= MaxFiles }
    /\ (~input_is_dir => inputFiles = {})
    /\ \E S \in SUBSET inputFiles : out = [ f \in S |-> OldContent ]
    /\ out0 = out
    /\ run = "first"
    /\ prev = NoPrev
    /\ FreshRun
    /\ CodecIdle
    /\ ScanIdle

\* ------------------------------------------------------------- main()
\* main() without the check of lines 175-177
CheckApiKey_ignored ==
    /\ pc = "check_key"
    /\ pc' = "check_dir"
    /\ UNCHANGED << api_key, input_is_dir, threads, inputFiles, out, run,
                    files_to_translate, total_files, st, response, kind,
                    loaded, index, printed, requests, existed, wrote,
                    uncaught, prev, out0 >>
    /\ UNCHANGED << codecVars, scanVars >>

\* lines 175-177
CheckApiKey ==
    /\ pc = "check_key"
    /\ pc' = IF api_key = "" \/ api_key = "..." THEN "fatal" ELSE "check_dir"
    /\ UNCHANGED << api_key, input_is_dir, threads, inputFiles, out, run,
                    files_to_translate, total_files, st, response, kind,
                    loaded, index, printed, requests, existed, wrote,
                    uncaught, prev, out0 >>
    /\ UNCHANGED << codecVars, scanVars >>

\* lines 182-184
CheckInputDir ==
    /\ pc = "check_dir"
    /\ pc' = IF input_is_dir THEN "sync" ELSE "fatal"
    /\ UNCHANGED << api_key, input_is_dir, threads, inputFiles, out, run,
                    files_to_translate, total_files, st, response, kind,
                    loaded, index, printed, requests, existed, wrote,
                    uncaught, prev, out0 >>
    /\ UNCHANGED << codecVars, scanVars >>

\* main() without the call of line 187
SyncDirectories_skipped ==
    /\ pc = "sync"
    /\ out' = out
    /\ pc' = "scan"
    /\ UNCHANGED << api_key, input_is_dir, threads, inputFiles, run,
                    files_to_translate, total_files, st, response, kind,
                    loaded, index, printed, requests, existed, wrote,
                    uncaught, prev, out0 >>
    /\ UNCHANGED << codecVars, scanVars >>

\* line 187
SyncDirectories ==
    /\ pc = "sync"
    /\ out' = sync_directories(inputFiles, out, extensions)
    /\ pc' = "scan"
    /\ UNCHANGED << api_key, input_is_dir, threads, inputFiles, run,
                    files_to_translate, total_files, st, response, kind,
                    loaded, index, printed, requests, existed, wrote,
                    uncaught, prev, out0 >>
    /\ UNCHANGED << codecVars, scanVars >>

\* main() without the check of lines 191-193
Scan_unchecked ==
    /\ pc = "scan"
    /\ files_to_translate' = find_doc_files(inputFiles, extensions)
    /\ pc' = "client"
    /\ total_files' = Cardinality(files_to_translate')
    /\ st' = [ f \in Names |->
                 IF f \in files_to_translate' THEN "found" ELSE "none" ]
    /\ UNCHANGED << api_key, input_is_dir, threads, inputFiles, out, run,
                    response, kind, loaded, index, printed, requests, existed,
                    wrote, uncaught, prev, out0 >>
    /\ UNCHANGED << codecVars, scanVars >>

\* lines 190-196
Scan ==
    /\ pc = "scan"
    /\ files_to_translate' = find_doc_files(inputFiles, extensions)
    /\ IF files_to_translate' = {}
       THEN pc' = "nothing_found" /\ UNCHANGED << total_files, st >>
       ELSE /\ pc' = "client"
            /\ total_files' = Cardinality(files_to_translate')
            /\ st' = [ f \in Names |->
                         IF f \in files_to_translate' THEN "found" ELSE "none" ]
    /\ UNCHANGED << api_key, input_is_dir, threads, inputFiles, out, run,
                    response, kind, loaded, index, printed, requests, existed,
                    wrote, uncaught, prev, out0 >>
    /\ UNCHANGED << codecVars, scanVars >>

\* lines 199-203: the construction of the client succeeds or raises
InitClient ==
    /\ pc = "client"
    /\ \E ok \in BOOLEAN : pc' = IF ok THEN "dispatch" ELSE "fatal"
    /\ UNCHANGED << api_key, input_is_dir, threads, inputFiles, out, run,
                    files_to_translate, total_files, st, response, kind,
                    loaded, index, printed, requests, existed, wrote,
                    uncaught, prev, out0 >>
    /\ UNCHANGED << codecVars, scanVars >>

\* lines 207-210: executor.submit for the next file of the comprehension
Submit(f) ==
    /\ pc = "dispatch"
    /\ st[f] = "found"
    /\ st' = [ st EXCEPT ![f] = "queued" ]
    /\ UNCHANGED << api_key, input_is_dir, threads, inputFiles, out, pc, run,
                    files_to_translate, total_files, response, kind, loaded,
                    index, printed, requests, existed, wrote, uncaught, prev,
                    out0 >>
    /\ UNCHANGED << codecVars, scanVars >>

\* Collect without the try of lines 214-217: the exception of a future ends
\* main()
Collect_reraising(f) ==
    /\ pc = "dispatch"
    /\ \A g \in files_to_translate : st[g] # "found"
    /\ st[f] \in { "returned", "raised" }
    /\ st' = [ st EXCEPT ![f] = "collected" ]
    /\ pc' = IF st[f] = "raised" THEN "crashed" ELSE pc
    /\ uncaught' = uncaught
    /\ UNCHANGED << api_key, input_is_dir, threads, inputFiles, out, run,
                    files_to_translate, total_files, response, kind, loaded,
                    index, printed, requests, existed, wrote, prev, out0 >>
    /\ UNCHANGED << codecVars, scanVars >>

\* lines 212-217: as_completed yields a finished future; its exception, if
\* any, is caught and logged
Collect(f) ==
    /\ pc = "dispatch"
    /\ \A g \in files_to_translate : st[g] # "found"
    /\ st[f] \in { "returned", "raised" }
    /\ st' = [ st EXCEPT ![f] = "collected" ]
    /\ uncaught' = IF st[f] = "raised" THEN uncaught \cup {f} ELSE uncaught
    /\ pc' = pc
    /\ UNCHANGED << api_key, input_is_dir, threads, inputFiles, out, run,
                    files_to_translate, total_files, response, kind, loaded,
                    index, printed, requests, existed, wrote, prev, out0 >>
    /\ UNCHANGED << codecVars, scanVars >>

\* the loop left after the first future
first_collected == \E g \in files_to_translate : st[g] = "collected"

\* lines 212-217: the loop over as_completed ends when every future has been
\* yielded
all_collected == \A g \in files_to_translate : st[g] = "collected"

\* line 219, after the executor's with block has been left
Complete ==
    /\ pc = "dispatch"
    /\ all_collected
    /\ pc' = "done"
    /\ UNCHANGED << api_key, input_is_dir, threads, inputFiles, out, run,
                    files_to_translate, total_files, st, response, kind,
                    loaded, index, printed, requests, existed, wrote,
                    uncaught, prev, out0 >>
    /\ UNCHANGED << codecVars, scanVars >>

\* ---------------------------------------- log_translate_progress
\* the message level translate_file passes for each kind of message
LevelOf(k) == IF k = "error" THEN ERROR ELSE INFO

\* line 117, first half: "+= 1" reads the attribute
LogLoad(f) ==
    /\ pc = "dispatch"
    /\ st[f] = "log_load"
    /\ loaded' = [ loaded EXCEPT ![f] = index ]
    /\ st' = [ st EXCEPT ![f] = "log_store" ]
    /\ UNCHANGED << api_key, input_is_dir, threads, inputFiles, out, pc, run,
                    files_to_translate, total_files, response, kind, index,
                    printed, requests, existed, wrote, uncaught, prev, out0 >>
    /\ UNCHANGED << codecVars, scanVars >>

\* line 117, second half: "+= 1" stores the sum
LogStore(f) ==
    /\ pc = "dispatch"
    /\ st[f] = "log_store"
    /\ index' = loaded[f] + 1
    /\ loaded' = [ loaded EXCEPT ![f] = 0 ]
    /\ st' = [ st EXCEPT ![f] = "log_print" ]
    /\ UNCHANGED << api_key, input_is_dir, threads, inputFiles, out, pc, run,
                    files_to_translate, total_files, response, kind, printed,
                    requests, existed, wrote, uncaught, prev, out0 >>
    /\ UNCHANGED << codecVars, scanVars >>

\* line 118 formats the attribute as it is now and logs the entry; then
\* translate_file returns (line 129, after line 157) or goes on to line 161
LogPrint(f) ==
    /\ pc = "dispatch"
    /\ st[f] = "log_print"
    /\ printed' = [ printed EXCEPT ![f] =
                      Append(@, [ k |-> index, total |-> total_files,
                                  level |-> LevelOf(kind[f]), kind |-> kind[f] ]) ]
    /\ st' = [ st EXCEPT ![f] = IF kind[f] = "error" THEN "print_exc" ELSE "returned" ]
    /\ UNCHANGED << api_key, input_is_dir, threads, inputFiles, out, pc, run,
                    files_to_translate, total_files, response, kind, loaded,
                    index, requests, existed, wrote, uncaught, prev, out0 >>
    /\ UNCHANGED << codecVars, scanVars >>

\* ------------------------------------------------------ translate_file
\* a pool without a limit
worker_always_available == TRUE

\* line 206: the pool runs at most max_workers = args.threads tasks at a time
worker_available == Cardinality(InFlight) < threads

\* translate_file without the check of line 127
output_exists_never(f) == FALSE

\* line 127
output_exists(f) == f \in DOMAIN out

\* translate_file creating its output file before it reads the source
Start_creating_output(f) ==
    /\ pc = "dispatch"
    /\ st[f] = "queued"
    /\ worker_available
    /\ existed' = IF f \in DOMAIN out THEN WithFile(existed, f, out[f]) ELSE existed
    /\ IF output_exists(f)
       THEN /\ kind' = [ kind EXCEPT ![f] = "skip" ]
            /\ st' = [ st EXCEPT ![f] = "log_load" ]
            /\ out' = out
       ELSE /\ st' = [ st EXCEPT ![f] = "read" ]
            /\ out' = WithFile(out, f, << >>)
            /\ UNCHANGED kind
    /\ UNCHANGED << api_key, input_is_dir, threads, inputFiles, pc, run,
                    files_to_translate, total_files, response, loaded, index,
                    printed, requests, wrote, uncaught, prev, out0 >>
    /\ UNCHANGED << codecVars, scanVars >>

\* a pool thread takes the task; lines 124-129
Start(f) ==
    /\ pc = "dispatch"
    /\ st[f] = "queued"
    /\ worker_available
    /\ existed' = IF f \in DOMAIN out THEN WithFile(existed, f, out[f]) ELSE existed
    /\ IF output_exists(f)
       THEN /\ kind' = [ kind EXCEPT ![f] = "skip" ]
            /\ st' = [ st EXCEPT ![f] = "log_load" ]
       ELSE /\ st' = [ st EXCEPT ![f] = "read" ]
            /\ UNCHANGED kind
    /\ UNCHANGED << api_key, input_is_dir, threads, inputFiles, out, pc, run,
                    files_to_translate, total_files, response, loaded, index,
                    printed, requests, wrote, uncaught, prev, out0 >>
    /\ UNCHANGED << codecVars, scanVars >>

\* the except clause of lines 159-160 takes over
Fail(f) ==
    /\ kind' = [ kind EXCEPT ![f] = "error" ]
    /\ st' = [ st EXCEPT ![f] = "log_load" ]
    /\ response' = [ response EXCEPT ![f] = << >> ]

\* lines 132-133: read_text returns or raises
ReadSource(f) ==
    /\ pc = "dispatch"
    /\ st[f] = "read"
    /\ \E ok \in BOOLEAN :
         IF ok THEN /\ st' = [ st EXCEPT ![f] = "request" ]
                    /\ UNCHANGED << kind, response >>
         ELSE Fail(f)
    /\ UNCHANGED << api_key, input_is_dir, threads, inputFiles, out, pc, run,
                    files_to_translate, total_files, loaded, index, printed,
                    requests, existed, wrote, uncaught, prev, out0 >>
    /\ UNCHANGED << codecVars, scanVars >>

\* translate_file issuing the request once more after a first failure
Request_retrying(f) ==
    /\ pc = "dispatch"
    /\ st[f] = "request"
    /\ requests' = [ requests EXCEPT ![f] = @ + 1 ]
    /\ \E ok \in BOOLEAN :
         IF ok THEN /\ st' = [ st EXCEPT ![f] = "stream" ]
                    /\ UNCHANGED << kind, response >>
         ELSE IF requests[f] = 0 THEN UNCHANGED << st, kind, response >>
         ELSE Fail(f)
    /\ UNCHANGED << api_key, input_is_dir, threads, inputFiles, out, pc, run,
                    files_to_translate, total_files, loaded, index, printed,
                    existed, wrote, uncaught, prev, out0 >>
    /\ UNCHANGED << codecVars, scanVars >>

\* lines 135-143: the request is issued; it returns a stream or raises
Request(f) ==
    /\ pc = "dispatch"
    /\ st[f] = "request"
    /\ requests' = [ requests EXCEPT ![f] = @ + 1 ]
    /\ \E ok \in BOOLEAN :
         IF ok THEN /\ st' = [ st EXCEPT ![f] = "stream" ]
                    /\ UNCHANGED << kind, response >>
         ELSE Fail(f)
    /\ UNCHANGED << api_key, input_is_dir, threads, inputFiles, out, pc, run,
                    files_to_translate, total_files, loaded, index, printed,
                    existed, wrote, uncaught, prev, out0 >>
    /\ UNCHANGED << codecVars, scanVars >>

\* lines 146-151: the loop over the stream collects the non-empty deltas in
\* arrival order
RECURSIVE collect_deltas(_)
collect_deltas(chunks) ==
    IF chunks = << >> THEN << >>
    ELSE IF Head(chunks) # << >>
         THEN << Head(chunks) >> \o collect_deltas(Tail(chunks))
         ELSE collect_deltas(Tail(chunks))

\* lines 146-151: the stream is consumed to its end, or raises on the way
ConsumeStream(f) ==
    /\ pc = "dispatch"
    /\ st[f] = "stream"
    /\ \/ \E s \in Streams :
            /\ response' = [ response EXCEPT ![f] = collect_deltas(s) ]
            /\ st' = [ st EXCEPT ![f] = "save" ]
            /\ UNCHANGED kind
       \/ Fail(f)
    /\ UNCHANGED << api_key, input_is_dir, threads, inputFiles, out, pc, run,
                    files_to_translate, total_files, loaded, index, printed,
                    requests, existed, wrote, uncaught, prev, out0 >>
    /\ UNCHANGED << codecVars, scanVars >>

\* the texts the streams can be joined to, and save_translated_file tabulated
\* on them
ResponseTexts == { join(collect_deltas(s)) : s \in Streams }
saved_response ==
    [ t \in ResponseTexts |-> [ io \in IoOutcomes |-> save_translated_file(t, io) ] ]

\* lines 153-157 with 81-99: the deltas are joined and saved; the success message
\* follows unless save_translated_file raised
Save(f) ==
    /\ pc = "dispatch"
    /\ st[f] = "save"
    /\ \E io \in IoOutcomes :
         LET r == saved_response[join(response[f])][io]
         IN /\ out' = IF r.file # << >> THEN WithFile(out, f, r.file[1]) ELSE out
            /\ wrote' = [ wrote EXCEPT ![f] = io ]
            /\ kind' = [ kind EXCEPT ![f] = IF r.raised THEN "error" ELSE "success" ]
    /\ st' = [ st EXCEPT ![f] = "log_load" ]
    /\ response' = [ response EXCEPT ![f] = << >> ]
    /\ UNCHANGED << api_key, input_is_dir, threads, inputFiles, pc, run,
                    files_to_translate, total_files, loaded, index, printed,
                    requests, existed, uncaught, prev, out0 >>
    /\ UNCHANGED << codecVars, scanVars >>

\* line 161: print_exc returns, or raises and the exception leaves the task
PrintExc(f) ==
    /\ pc = "dispatch"
    /\ st[f] = "print_exc"
    /\ \E ok \in BOOLEAN :
         st' = [ st EXCEPT ![f] = IF ok THEN "returned" ELSE "raised" ]
    /\ UNCHANGED << api_key, input_is_dir, threads, inputFiles, out, pc, run,
                    files_to_translate, total_files, response, kind, loaded,
                    index, printed, requests, existed, wrote, uncaught, prev,
                    out0 >>
    /\ UNCHANGED << codecVars, scanVars >>

\* ----------------------------------------------------- specifications
\* how an invocation ended for a file
Outcome(f) ==
    IF f \notin files_to_translate \/ st[f] \notin Finished THEN "none"
    ELSE IF kind[f] = "skip" THEN "Skipped"
    ELSE IF kind[f] = "success" THEN "Success"
    ELSE "Failed"

\* what an invocation leaves behind for a file: skipped, a file at its output
\* path that was not there before, or no file
Left(f) ==
    IF Outcome(f) = "none" THEN "none"
    ELSE IF Outcome(f) = "Skipped" THEN "Skipped"
    ELSE IF f \in DOMAIN out THEN "Saved"
    ELSE "NoFile"

\* main() is invoked again with the same arguments on the trees as they are
Rerun ==
    /\ pc \in { "done", "fatal", "nothing_found" }
    /\ run = "first"
    /\ run' = "second"
    /\ prev' = [ f \in Names |-> Left(f) ]
    /\ out0' = out
    /\ pc' = "check_key"
    /\ files_to_translate' = {}
    /\ total_files' = 0
    /\ st' = [ f \in Names |-> "none" ]
    /\ response' = [ f \in Names |-> << >> ]
    /\ kind' = [ f \in Names |-> "none" ]
    /\ loaded' = [ f \in Names |-> 0 ]
    /\ index' = 0
    /\ printed' = [ f \in Names |-> << >> ]
    /\ requests' = [ f \in Names |-> 0 ]
    /\ existed' = << >>
    /\ wrote' = [ f \in Names |-> "none" ]
    /\ uncaught' = {}
    /\ UNCHANGED << api_key, input_is_dir, threads, inputFiles, out >>
    /\ UNCHANGED << codecVars, scanVars >>

MainStep ==
    \/ CheckApiKey
    \/ CheckInputDir
    \/ SyncDirectories
    \/ Scan
    \/ InitClient
    \/ \E f \in Names : Submit(f)
    \/ \E f \in Names : Collect(f)
    \/ Complete

WorkerStep ==
    \/ \E f \in Names : Start(f)
    \/ \E f \in Names : ReadSource(f)
    \/ \E f \in Names : Request(f)
    \/ \E f \in Names : ConsumeStream(f)
    \/ \E f \in Names : Save(f)
    \/ \E f \in Names : LogLoad(f)
    \/ \E f \in Names : LogStore(f)
    \/ \E f \in Names : LogPrint(f)
    \/ \E f \in Names : PrintExc(f)

Next == MainStep \/ WorkerStep

\* ------------------------------------------- the codec on its own
\* the texts a response may open with: nothing, or a fence line and the header
FencedOpening == << FENCE, NL, HEADER >>
Openings == { << >>, FencedOpening }

\* the tokens of a text that follow its opening
Appended(t) == IF startswith(t, FencedOpening) THEN Len(t) - Len(FencedOpening) ELSE Len(t)

PipelineOff ==
    /\ api_key = ""
    /\ input_is_dir = FALSE
    /\ threads = 1
    /\ inputFiles = {}
    /\ out = << >>
    /\ out0 = << >>
    /\ run = "first"
    /\ prev = NoPrev
    /\ FreshRun

CodecInit ==
    /\ PipelineOff
    /\ ctext \in Openings
    /\ cio = "none"
    /\ cres = << >>
    /\ ScanIdle

\* lines 146-153: one more token of the response arrives
CodecChunk ==
    /\ pc = "check_key"
    /\ cres = << >>
    /\ Appended(ctext) < MaxLen
    /\ \E t \in Tokens : ctext' = Append(ctext, t)
    /\ UNCHANGED << cio, cres >>
    /\ UNCHANGED << pipelineVars, scanVars >>

\* line 155: save_translated_file(translated_text, output_path)
CodecSave ==
    /\ pc = "check_key"
    /\ cres = << >>
    /\ \E io \in IoOutcomes :
         /\ cio' = io
         /\ cres' = << save_translated_file(ctext, io) >>
    /\ UNCHANGED ctext
    /\ UNCHANGED << pipelineVars, scanVars >>

CodecNext == CodecChunk \/ CodecSave

\* save_translated_file applied to every response text of up to MaxLen tokens
\* after its opening
CodecSpec == CodecInit /\ [][CodecNext]_vars

\* ------------------------------------------- the two scans on their own
\* the tokens of a file name: a letter, the dot, and a word without a dot
NameTokens == { "a", ".", "md" }

\* the sequences of 1..n elements of S
SeqsUpTo(S, n) == UNION { [ 1..k -> S ] : k \in 1..n }

\* the subsets of S with at most k elements
RECURSIVE SubsetsUpTo(_, _)
SubsetsUpTo(S, k) ==
    IF k = 0 THEN { {} }
    ELSE LET P == SubsetsUpTo(S, k - 1)
         IN P \cup { T \cup {x} : T \in P, x \in S }

\* the file names of up to MaxName tokens; "." and ".." name no file
ScanNames == SeqsUpTo(NameTokens, MaxName) \ { << "." >>, << ".", "." >> }

\* the values of --extensions (nargs='+'): one or two strings, with or without
\* the leading dot
ExtStrings == { << ".", "md" >>, << "md" >>, << ".", "a" >>,
                << ".", "a", ".", "md" >> }
ExtLists == { << e >> : e \in ExtStrings }
            \cup { << e1, e2 >> : e1 \in ExtStrings, e2 \in ExtStrings }

ScanInit ==
    /\ PipelineOff
    /\ CodecIdle
    /\ sfiles \in SubsetsUpTo(ScanNames, MaxScanFiles)
    /\ sexts \in ExtLists
    /\ \E S \in SUBSET sfiles : strees = << [ f \in S |-> OldContent ] >>
    /\ sfound = << >>

\* line 187: sync_directories(input_dir, output_dir, args.extensions), in a
\* first invocation of main() and in a second one on the tree left by the first
ScanSync ==
    /\ pc = "check_key"
    /\ Len(strees) \in { 1, 2 }
    /\ strees' = Append(strees,
                        sync_directories(sfiles, strees[Len(strees)], sexts))
    /\ UNCHANGED << sfiles, sexts, sfound >>
    /\ UNCHANGED << pipelineVars, codecVars >>

\* line 190: find_doc_files(input_dir, args.extensions), after the sync
ScanFind ==
    /\ pc = "check_key"
    /\ Len(strees) >= 2
    /\ sfound = << >>
    /\ sfound' = << find_doc_files(sfiles, sexts) >>
    /\ UNCHANGED << sfiles, sexts, strees >>
    /\ UNCHANGED << pipelineVars, codecVars >>

ScanNext == ScanSync \/ ScanFind

\* sync_directories and find_doc_files applied to every directory of up to
\* MaxScanFiles files and every extension list
ScanSpec == ScanInit /\ [][ScanNext]_vars

\* ------------------------------- the progress counter under a full pool
\* main() invoked on a tree that is already translated: up to MaxCallers
\* translatable files, each with its output file, and up to MaxCallers threads
CounterInit ==
    /\ api_key = "sk-key"
    /\ input_is_dir = TRUE
    /\ threads \in 1..MaxCallers
    /\ inputFiles \in SubsetsUpTo(find_doc_files(Names, extensions), MaxCallers)
    /\ out = [ f \in inputFiles |-> OldContent ]
    /\ out0 = out
    /\ run = "first"
    /\ prev = NoPrev
    /\ FreshRun
    /\ CodecIdle
    /\ ScanIdle

\* the steps of such a run: every task takes the branch of lines 127-129
CounterNext ==
    \/ CheckApiKey
    \/ CheckInputDir
    \/ SyncDirectories
    \/ Scan
    \/ InitClient
    \/ \E f \in Names : Submit(f)
    \/ \E f \in Names : Start(f)
    \/ \E f \in Names : LogLoad(f)
    \/ \E f \in Names : LogStore(f)
    \/ \E f \in Names : LogPrint(f)
    \/ \E f \in Names : Collect(f)
    \/ Complete

CounterSpec == CounterInit /\ [][CounterNext]_vars

\* one invocation of main()
Spec == Init /\ [][Next]_vars

\* the main thread and the pool threads keep running while they can
FairSpec == Spec /\ WF_vars(MainStep) /\ WF_vars(WorkerStep)

\* main() invoked twice in a row
RerunNext == Next \/ Rerun
RerunSpec == Init /\ [][RerunNext]_vars

\* ================================================================ claims
Items == files_to_translate

\* the progress entries logged for the files
Entries(f) == { printed[f][i] : i \in DOMAIN printed[f] }

\* C1: when a run ends, the indices k of the progress messages are exactly
\* 1..N, each printed once, and the shared counter equals N.
C1_ProgressIndicesExact ==
    pc = "done" =>
        /\ index = total_files
        /\ \A f \in Items : Len(printed[f]) = 1
        /\ \A k \in 1..total_files :
             Cardinality({ f \in Items : printed[f][1].k = k }) = 1

\* C2: a file whose output exists when translate_file starts on it is never
\* requested, keeps its output content, and is counted with one info-level
\* "skipped" progress entry.
C2_ExistingOutputSkipped ==
    \A f \in DOMAIN existed :
        /\ requests[f] = 0
        /\ f \in DOMAIN out /\ out[f] = existed[f]
        /\ Len(printed[f]) <= 1
        /\ \A e \in Entries(f) : e.level = INFO /\ e.kind = "skip"
        /\ st[f] \in Finished => Len(printed[f]) = 1

C2_Witness ==
    /\ pc = "done"
    /\ \E f \in DOMAIN existed : Len(printed[f]) = 1 /\ out[f] = OldContent
    /\ \E g \in Items : g \notin DOMAIN existed /\ wrote[g] = "ok"

\* the input files with a translatable extension
Translatable == { f \in inputFiles : suffix(f) \in { extensions[k] : k \in DOMAIN extensions } }

\* C3 as stated: after a run past the fatal checks every translatable input
\* file has a file at its output path, whatever the outcomes of the items.
C3_EveryItemHasOutput ==
    pc = "done" => \A f \in Translatable : f \in DOMAIN out

\* C3 as amended: after a run past the fatal checks every translatable input
\* file that was skipped, or whose output was written without an error, has a
\* file at its output path.
C3_SkippedOrWrittenHasOutput ==
    pc = "done" =>
        \A f \in Translatable :
            (Outcome(f) = "Skipped" \/ wrote[f] = "ok") => f \in DOMAIN out

C3_Witness ==
    /\ pc = "done"
    /\ \E f \in Translatable :
         (Outcome(f) = "Skipped" \/ wrote[f] = "ok") /\ f \in DOMAIN out
    /\ \E f \in Translatable : Outcome(f) = "Failed" /\ f \notin DOMAIN out

\* an item has its one terminal outcome: one progress entry, of its outcome
OneOutcome(f) ==
    /\ st[f] \in Finished
    /\ Outcome(f) \in { "Skipped", "Success", "Failed" }
    /\ Len(printed[f]) = 1
    /\ printed[f][1].kind = kind[f]

\* C4: with fair scheduling every discovered item eventually reaches exactly
\* one terminal outcome, and the completion message is emitted only after all
\* items have reached one.
C4_AllItemsTerminate ==
    /\ \A f \in Names : (pc = "dispatch" /\ f \in Items) ~> OneOutcome(f)
    /\ (pc = "dispatch") ~> (pc = "done")
    /\ [](pc = "done" => \A f \in Items : OneOutcome(f))

C4_Witness ==
    /\ pc = "done"
    /\ \E f \in Items : Outcome(f) = "Success"
    /\ \E f \in Items : Outcome(f) = "Failed"

C6_AtMostThreadsInFlight ==
    Cardinality({ f \in Names : st[f] \notin { "none", "found", "queued" } \cup Finished })
        <= threads

C6_Witness ==
    /\ threads < total_files
    /\ Cardinality(InFlight) = threads
    /\ \E f \in Items : st[f] = "queued"

\* an item's processing has failed
HasFailed(f) == kind[f] = "error" \/ st[f] = "raised"

\* C7: when the processing of an item fails, the run still reaches the
\* completion message, and every other item has reached its own outcome, with
\* its output written when its own steps succeeded.
C7_FailureIsolated ==
    \A x \in Names :
        (pc = "dispatch" /\ HasFailed(x)) ~>
            /\ pc = "done"
            /\ \A y \in Items \ {x} :
                 /\ OneOutcome(y)
                 /\ wrote[y] = "ok" => (y \in DOMAIN out /\ Outcome(y) = "Success")
                 /\ y \in DOMAIN existed => Outcome(y) = "Skipped"

C7_Witness ==
    /\ pc = "done"
    /\ \E x \in uncaught : \E y \in Items \ {x} : wrote[y] = "ok" /\ y \in DOMAIN out

\* ---- the envelope, as the claims describe it
LeadingBreaks(t) == Max({ k \in 0..Len(t) : \A i \in 1..k : t[i] = NL })
TrailingBreaks(t) == Max({ k \in 0..Len(t) : \A i \in (Len(t) - k + 1)..Len(t) : t[i] = NL })

\* the text without the white space around it
Trimmed(t) ==
    IF LeadingBreaks(t) = Len(t) THEN << >>
    ELSE SubSeq(t, LeadingBreaks(t) + 1, Len(t) - TrailingBreaks(t))

Breaks(u) == { i \in 1..Len(u) : u[i] = NL }

\* the trimmed text, without its first and last line when a fence encloses it
Envelope(t) ==
    LET u == Trimmed(t)
    IN IF u # << >> /\ u[1] = FENCE /\ u[Len(u)] = FENCE
       THEN IF Cardinality(Breaks(u)) >= 2
            THEN SubSeq(u, Min(Breaks(u)) + 1, Max(Breaks(u)) - 1)
            ELSE << >>
       ELSE u

SeparatorsIn(e) ==
    { i \in 1..Len(e) : i + 2 <= Len(e) /\ e[i] = NL /\ e[i + 1] = DASHES /\ e[i + 2] = NL }

WellFormed(t) == SeparatorsIn(Envelope(t)) # {}

\* the text after the first separator
BodyOf(t) ==
    LET e == Envelope(t)
    IN SubSeq(e, Min(SeparatorsIn(e)) + 3, Len(e))

Saved == cres # << >> /\ cio = "ok"

\* C8: a response that is header, separator, body after trimming and fence
\* stripping is saved as exactly the text after the first separator.
C8_WellFormedSavesBody ==
    (Saved /\ WellFormed(ctext)) =>
        /\ ~cres[1].raised
        /\ cres[1].file = << BodyOf(ctext) >>

C8_Witness ==
    /\ Saved
    /\ ctext = << FENCE, NL, HEADER, NL, DASHES, NL, WORD, NL, FENCE >>
    /\ cres[1].file = << << WORD >> >>

\* C9: a response without a separator after trimming and fence stripping is
\* saved whole, untrimmed and with its fence, and nothing is raised.
C9_MalformedSavesRaw ==
    (Saved /\ ~WellFormed(ctext)) =>
        /\ ~cres[1].raised
        /\ cres[1].file = << ctext >>

C9_Witness ==
    /\ Saved
    /\ ctext = << NL, FENCE, NL >>
    /\ cres[1].path = "fallback"
    /\ cres[1].file = << ctext >>

WordCount(t) == Cardinality({ i \in 1..Len(t) : t[i] = WORD })

\* C10: no part of the translated body is missing from the saved file: every
\* word of the response is in it, whether or not the response has its header.
C10_NoBodyLost ==
    Saved =>
        /\ cres[1].file # << >>
        /\ WordCount(cres[1].file[1]) = WordCount(ctext)

\* the entries of a level, or of a kind, logged for a file
EntriesAt(f, level) == SelectSeq(printed[f], LAMBDA e : e.level = level)
EntriesOf(f, k) == SelectSeq(printed[f], LAMBDA e : e.kind = k)

\* an exception was raised in a step of translate_file for f: in the read, the
\* request or the stream (the except clause took over before any write), or
\* in the write of the output file
RaisedBeforeWrite(f) == kind[f] = "error" /\ wrote[f] = "none"
RaisedInWrite(f) == wrote[f] \in { "nofile", "partial" }

\* C11: a work item that is not skipped and for which a step raised (read,
\* request, stream or the write of the output file) ends Failed: one
\* error-level progress entry and no success entry.
C11_AnyStepErrorFails ==
    \A f \in Items :
        ( /\ st[f] \in Finished
          /\ f \notin DOMAIN existed
          /\ (RaisedBeforeWrite(f) \/ RaisedInWrite(f)) )
        => /\ Len(EntriesAt(f, ERROR)) = 1
           /\ Len(EntriesOf(f, "success")) = 0

\* C12: no file that find_doc_files returns as a work item is copied to the
\* output tree by sync_directories, whatever the file names and the extension
\* list: after the sync such a file is in the output tree only if it was
\* there before.
C12_WorkItemsNeverCopied ==
    (Len(strees) >= 2 /\ sfound # << >>) =>
        \A f \in sfound[1] : f \in DOMAIN strees[2] => f \in DOMAIN strees[1]

\* the fatal conditions of lines 175 and 182
KeyMissing == api_key = "" \/ api_key = "..."
BadInputDir == ~input_is_dir

\* no work item has been handed to the pool, no request issued, no progress
\* entry logged and no translated file written: a file of the output tree is
\* the one that was there at the start, or a copy made by sync_directories
NothingDispatched ==
    /\ \A f \in Names :
         /\ st[f] \in { "none", "found" }
         /\ requests[f] = 0
         /\ wrote[f] = "none"
         /\ printed[f] = << >>
    /\ \A f \in DOMAIN out :
         IF f \in DOMAIN out0 THEN out[f] = out0[f] ELSE out[f] = SrcContent(f)

\* C13: under a fatal condition (key missing or the placeholder, input path
\* not a directory, client construction failing) nothing is dispatched, no
\* request is issued and no translated file is written; with a missing key or
\* a bad input directory the output tree stays exactly as it was.
C13_FatalStopsBeforeDispatch ==
    /\ pc = "fatal" => NothingDispatched
    /\ (KeyMissing \/ BadInputDir) =>
         /\ NothingDispatched
         /\ out = out0
         /\ pc \in { "check_key", "check_dir", "fatal" }

C13_Witness ==
    /\ pc = "fatal"
    /\ api_key = "..."
    /\ input_is_dir
    /\ \E f \in inputFiles : ~is_doc_file(f, extensions) /\ f \notin DOMAIN out

\* the output tree holds everything sync_directories had to put there: each
\* file of the tree synchronised from the one at the start is present, a
\* non-translatable one with that very content
SyncFinished ==
    LET synced == sync_directories(inputFiles, out0, extensions)
    IN \A m \in DOMAIN synced :
         /\ m \in DOMAIN out
         /\ ~is_doc_file(m, extensions) => out[m] = synced[m]

\* the work set is the complete scan result and total_files its size
ScanComplete ==
    /\ files_to_translate = find_doc_files(inputFiles, extensions)
    /\ total_files = Cardinality(files_to_translate)

\* C14: the phases are ordered.  While main() has not finished the sync, the
\* scan and the client set-up, nothing is submitted, requested or written;
\* once any item has been submitted the sync has made all its copies and the
\* work set is the complete scan result; total_files and the work set do not
\* change during dispatch.
C14_PhasesOrdered ==
    /\ [](pc \in { "check_key", "check_dir", "sync", "scan", "client" }
            => NothingDispatched)
    /\ []((\E f \in Names : st[f] \notin { "none", "found" })
            => /\ pc \in { "dispatch", "done" }
               /\ SyncFinished
               /\ ScanComplete)
    /\ [][pc = "dispatch" =>
            /\ total_files' = total_files
            /\ files_to_translate' = files_to_translate]_vars

C14_Witness ==
    /\ pc = "dispatch"
    /\ \E f \in Items : requests[f] = 1 /\ wrote[f] = "ok"
    /\ \E m \in DOMAIN out : m \notin DOMAIN out0 /\ ~is_doc_file(m, extensions)

\* C15: sync_directories leaves every file of the output tree as it was; after
\* it every input file that is not a work item has a file at its output
\* path, the one that was there or else a copy of the input; a second call
\* changes nothing.
C15_SyncCopiesIfAbsent ==
    Len(strees) >= 2 =>
        /\ \A f \in DOMAIN strees[1] :
             f \in DOMAIN strees[2] /\ strees[2][f] = strees[1][f]
        /\ \A f \in sfiles :
             ~is_doc_file(f, sexts) =>
                 /\ f \in DOMAIN strees[2]
                 /\ strees[2][f] = IF f \in DOMAIN strees[1] THEN strees[1][f]
                                   ELSE SrcContent(f)
        /\ Len(strees) >= 3 => strees[3] = strees[2]

C15_Witness ==
    /\ Len(strees) = 3
    /\ sfound # << >>
    /\ \E f \in sfiles :
         /\ f \notin sfound[1]
         /\ f \notin DOMAIN strees[1]
         /\ strees[3][f] = SrcContent(f)

\* C16: a work item that is not skipped and fails before the write begins
\* (read, request or stream error) has no file at its output path from its
\* terminal outcome on, so the test of line 127 is false for it in a later
\* run.
C16_NoFileOnEarlyFailure ==
    \A f \in Items :
        (st[f] \in Finished /\ f \notin DOMAIN existed /\ RaisedBeforeWrite(f))
        => f \notin DOMAIN out

C16_Witness ==
    /\ pc = "done"
    /\ \E f \in Items :
         /\ f \notin DOMAIN existed
         /\ RaisedBeforeWrite(f)
         /\ requests[f] = 1
         /\ f \notin DOMAIN out
    /\ \E g \in Items : wrote[g] = "ok" /\ g \in DOMAIN out

\* C17: when the scan finds no translatable file the run ends right after the
\* sync with the "nothing found" message: the step after the scan is the
\* return of line 193, which is final, so no client is constructed and no
\* pool started; no request is issued and no progress entry logged.
C17_EmptyScanEndsRun ==
    /\ [](find_doc_files(inputFiles, extensions) = {} =>
            /\ pc \in { "check_key", "check_dir", "fatal", "sync", "scan",
                        "nothing_found" }
            /\ \A f \in Names :
                 st[f] = "none" /\ requests[f] = 0 /\ printed[f] = << >>
            /\ index = 0)
    /\ [](pc = "nothing_found" =>
            /\ files_to_translate = {}
            /\ out = sync_directories(inputFiles, out0, extensions))
    /\ [][pc = "nothing_found" => pc' = "nothing_found"]_vars

C17_Witness ==
    /\ pc = "nothing_found"
    /\ inputFiles # {}
    /\ out # out0

\* the work items whose task has called log_translate_progress
Callers ==
    { f \in Names : st[f] \in { "log_load", "log_store", "log_print",
                                "print_exc", "returned", "raised", "collected" } }

\* C18, first part: every progress message "[k/total]" has 1 <= k <= total_files
C18_IndexInRange ==
    \A f \in Names : \A e \in Entries(f) :
        1 <= e.k /\ e.k <= total_files /\ e.total = total_files

\* C18, last part: the counter never exceeds the number of work items that
\* have called log_translate_progress
C18_CounterAtMostCallers == index <= Cardinality(Callers)

\* C18: under every interleaving of the worker threads every progress message
\* "[k/total]" has 1 <= k <= total_files, the shared counter never decreases,
\* and it never exceeds the number of work items that have called
\* log_translate_progress.
C18_CounterMonotoneAndBounded ==
    /\ []C18_IndexInRange
    /\ [][index' >= index]_vars
    /\ []C18_CounterAtMostCallers

\* C19: a work item causes at most one request per run: exactly one when it is
\* not skipped and its source was read (the task got to line 135), none
\* otherwise; after a failed request or a failed stream the task goes to its
\* error entry and never back to the request.
C19_AtMostOneRequest ==
    /\ [](\A f \in Names :
            /\ requests[f] <= 1
            /\ requests[f] = 1 => f \in Items /\ f \notin DOMAIN existed
            /\ st[f] \in { "none", "found", "queued", "read", "request" }
                 => requests[f] = 0
            /\ st[f] \in { "stream", "save" } => requests[f] = 1)
    /\ [][\A f \in Names :
            /\ requests'[f] # requests[f] => st[f] = "request"
            /\ (st[f] = "request" /\ st'[f] # "request") => requests'[f] = 1
            /\ st'[f] = "request" => st[f] \in { "read", "request" }
            /\ st'[f] = "read" => st[f] \in { "queued", "read" }
            /\ (st[f] \in { "request", "stream" } /\ kind'[f] = "error")
                 => st'[f] = "log_load"]_vars

C19_Witness ==
    /\ pc = "done"
    /\ \E f \in Items :
         requests[f] = 1 /\ RaisedBeforeWrite(f) /\ Len(EntriesAt(f, ERROR)) = 1
    /\ \E g \in Items :
         requests[g] = 0 /\ g \notin DOMAIN existed /\ RaisedBeforeWrite(g)

====
